---- MODULE Spec2Model ----
(***************************************************************************)
(* Model of timelistened.py: the aggregation-and-ranking pipeline          *)
(* (process_streaming_files) and the display stage (display_stats with     *)
(* get_user_limits, print_rankings and print_artist_rankings).             *)
(*                                                                         *)
(* Three specifications:                                                   *)
(*   Spec         process_streaming_files on a loaded dataset              *)
(*   SpecDisplay  display_stats on the ranking of a short song aggregate   *)
(*   SpecArtists  print_artist_rankings on the ranking of a longer one     *)
(***************************************************************************)
EXTENDS Integers, Sequences, FiniteSets, TLC

\* ------------------------------------------------------------------ bounds

\* Longest loaded dataset (len(all_data)) explored in Spec.
MaxEntries == 2

\* Longest song aggregate (len(song_playtime)) explored in SpecArtists.
MaxSongs == 6

\* Longest song aggregate explored in SpecDisplay.
MaxShown == 3

\* ------------------------------------------------------- program constants

\* min(5, num_songs): how many best positions are averaged per artist.
TopN == 5

\* ms_played / 60000: milliseconds per minute.
MsPerMinute == 60000

\* ms_played / (1000 * 60 * 60): milliseconds per hour.
MsPerHour == 3600000

\* --------------------------------------------------------------- JSON data

\* A JSON value of an entry, or the absence of the key ("absent").
JStr(x) == [t |-> "str", s |-> x, n |-> 0]
JInt(x) == [t |-> "int", s |-> "", n |-> x]
JNull == [t |-> "null", s |-> "", n |-> 0]
JAbsent == [t |-> "absent", s |-> "", n |-> 0]

\* 'key' in entry
Has(v) == v.t # "absent"

\* Python truthiness of a JSON value: None, "" and 0 are falsy.
Truthy(v) ==
    \/ v.t = "str" /\ v.s # ""
    \/ v.t = "int" /\ v.n # 0

\* ---------------------------------------------------------------- datetime

\* A datetime is <<year, month, day, hour, minute, second>>; Python compares
\* datetimes field by field in this order.
DtLess(a, b) ==
    \E i \in 1..6 : a[i] < b[i] /\ \A j \in 1..(i - 1) : a[j] = b[j]

\* '' (an omitted user date) and "not yet assigned": falsy, no datetime.
NoDate == <<0, 0, 0, 0, 0, 0>>

\* datetime.strptime(s, "%Y-%m-%dT%H:%M:%SZ") on the timestamp texts of the
\* model's datasets; any other text raises ValueError, a non-string TypeError.
TsTable ==
    [ x \in {"2022-12-31T00:00:00Z", "2022-12-31T23:59:59Z", "2023-01-01T00:00:00Z"} |->
        CASE x = "2022-12-31T00:00:00Z" -> <<2022, 12, 31, 0, 0, 0>>
          [] x = "2022-12-31T23:59:59Z" -> <<2022, 12, 31, 23, 59, 59>>
          [] x = "2023-01-01T00:00:00Z" -> <<2023, 1, 1, 0, 0, 0>> ]

StrptimeTs(v) ==
    IF v.t # "str" THEN [ok |-> FALSE, err |-> "TypeError", dt |-> NoDate]
    ELSE IF v.s \in DOMAIN TsTable
    THEN [ok |-> TRUE, err |-> "", dt |-> TsTable[v.s]]
    ELSE [ok |-> FALSE, err |-> "ValueError", dt |-> NoDate]

\* datetime.strptime(s, "%Y-%m-%d") on the texts a user may type.
DateTable ==
    [ x \in {"2022-12-31", "2023-01-01"} |->
        CASE x = "2022-12-31" -> <<2022, 12, 31, 0, 0, 0>>
          [] x = "2023-01-01" -> <<2023, 1, 1, 0, 0, 0>> ]

StrptimeDate(s) ==
    IF s \in DOMAIN DateTable
    THEN [ok |-> TRUE, dt |-> DateTable[s]]
    ELSE [ok |-> FALSE, dt |-> NoDate]

\* to_date.replace(hour=23, minute=59, second=59)
EndOfDay(d) == <<d[1], d[2], d[3], 23, 59, 59>>

\* entry_date.year
YearOf(d) == d[1]

\* min(dates), max(dates) over a non-empty set of datetimes
MinDt(S) == CHOOSE d \in S : \A e \in S : ~DtLess(e, d)
MaxDt(S) == CHOOSE d \in S : \A e \in S : ~DtLess(d, e)

\* ---------------------------------------------------------------- rationals

\* Python's true division a / b (b > 0), kept exact: a fraction in lowest
\* terms, so that equal quotients are equal values.
Abs(a) == IF a < 0 THEN -a ELSE a

RECURSIVE Gcd(_, _)
Gcd(a, b) == IF b = 0 THEN a ELSE Gcd(b, a % b)

Div(a, b) ==
    LET g == Gcd(Abs(a), b) IN [num |-> a \div g, den |-> b \div g]

FrLess(x, y) == x.num * y.den < y.num * x.den
FrAdd(x, y) == Div(x.num * y.den + y.num * x.den, x.den * y.den)
FrZero == [num |-> 0, den |-> 1]

\* ------------------------------------------------------------- defaultdict

\* A dict in insertion order: a sequence of [k, v] with distinct keys.
DictKeys(d) == {d[i].k : i \in DOMAIN d}
DictHas(d, key) == \E i \in DOMAIN d : d[i].k = key
DictGet(d, key) == d[CHOOSE i \in DOMAIN d : d[i].k = key].v

\* defaultdict.__getitem__ on d[key]: a missing key is inserted with the
\* default before its value is returned.
Vivify(d, key, default) ==
    IF DictHas(d, key) THEN d ELSE Append(d, [k |-> key, v |-> default])

DictSet(d, key, val) ==
    [i \in DOMAIN d |-> IF d[i].k = key THEN [k |-> key, v |-> val] ELSE d[i]]

\* ----------------------------------------------------------------- entries

\* One listening-event record as json.load returns it: the four keys the
\* program reads, each a JSON value or absent.
Entry(ts, track, artist, ms) ==
    [ts |-> ts, track |-> track, artist |-> artist, ms |-> ms]

\* Well-formed records: three instants around a day and year boundary, two
\* tracks of one artist, zero and non-zero durations.
PlainEntries ==
    { Entry(JStr(ts), JStr(tr), JStr("X"), JInt(ms)) :
        ts \in DOMAIN TsTable, tr \in {"A", "B"}, ms \in {0, 60000} }

\* Records that differ from a well-formed one in a single field: a missing
\* key, null, empty text, malformed timestamp text, a second artist, a
\* negative duration.
OddEntries ==
    { Entry(ts, JStr("A"), JStr("X"), JInt(60000)) :
        ts \in {JAbsent, JNull, JStr("31/12/2022 23:59")} }
    \cup { Entry(JStr("2022-12-31T23:59:59Z"), tr, JStr("X"), JInt(60000)) :
        tr \in {JAbsent, JNull, JStr("")} }
    \cup { Entry(JStr("2022-12-31T23:59:59Z"), JStr("A"), ar, JInt(60000)) :
        ar \in {JAbsent, JNull, JStr(""), JStr("Y")} }
    \cup { Entry(JStr("2022-12-31T23:59:59Z"), JStr("A"), JStr("X"), ms) :
        ms \in {JAbsent, JNull, JInt(-60000)} }

Entries == PlainEntries \cup OddEntries

\* What the user may type at a date prompt (after strip()).
DateInputs == {"", "yesterday", "2022-12-31", "2023-01-01"}

\* ------------------------------------------------- process_streaming_files

\* get_date_range: parse every entry that has 'ts', then min and max.  A
\* text strptime rejects raises ValueError out of the comprehension; with no
\* dates at all min() raises ValueError.
GetDateRange(data) ==
    LET withTs == {i \in DOMAIN data : Has(data[i].ts)}
        bad == {i \in withTs : ~StrptimeTs(data[i].ts).ok}
        dates == {StrptimeTs(data[i].ts).dt : i \in withTs}
    IN  IF bad # {}
        THEN [ok |-> FALSE, err |-> "strptime", lo |-> NoDate, hi |-> NoDate]
        ELSE IF dates = {}
        THEN [ok |-> FALSE, err |-> "min", lo |-> NoDate, hi |-> NoDate]
        ELSE [ok |-> TRUE, err |-> "", lo |-> MinDt(dates), hi |-> MaxDt(dates)]

\* if not user_from_date or user_from_date < earliest_date: ...
ResolveFrom(from, earliest) ==
    IF from = NoDate \/ DtLess(from, earliest) THEN earliest ELSE from

\* if not user_to_date or user_to_date > latest_date: ...
ResolveTo(to, latest) ==
    IF to = NoDate \/ DtLess(latest, to) THEN latest ELSE to

\* the four 'in entry' tests guarding an entry
HasAllFields(e) == Has(e.ms) /\ Has(e.track) /\ Has(e.artist) /\ Has(e.ts)

\* OutsideWindow with the upper test written >= : the last instant of the
\* window would be dropped.
OutsideWindowHalfOpen(d, from, to) == DtLess(d, from) \/ ~DtLess(d, to)

\* if entry_date < user_from_date or entry_date > user_to_date: continue
OutsideWindow(d, from, to) == DtLess(d, from) \/ DtLess(to, d)

\* AugAdd with -= in place of += .
AugAddMinus(d, key, ms) ==
    LET d1 == Vivify(d, key, 0)
    IN  IF ms.t # "int"
        THEN [d |-> d1, ok |-> FALSE]
        ELSE [d |-> DictSet(d1, key, DictGet(d1, key) - ms.n), ok |-> TRUE]

\* d[key] += ms on a defaultdict(int): __getitem__ (inserting 0 for a missing
\* key), then the addition, which raises TypeError unless ms is a number,
\* then __setitem__.
AugAdd(d, key, ms) ==
    LET d1 == Vivify(d, key, 0)
    IN  IF ms.t # "int"
        THEN [d |-> d1, ok |-> FALSE]
        ELSE [d |-> DictSet(d1, key, DictGet(d1, key) + ms.n), ok |-> TRUE]

\* The body of the aggregation loop for one entry, with its try/except.
\* outcome: "nofields" (guard false), "raised" (exception caught),
\* "outside" (continue), "year" (yearly total only), "both".
ProcessOne(e, from, to, song, yearly) ==
    IF ~HasAllFields(e)
    THEN [song |-> song, yearly |-> yearly, outcome |-> "nofields"]
    ELSE LET p == StrptimeTs(e.ts) IN
         IF ~p.ok
         THEN [song |-> song, yearly |-> yearly, outcome |-> "raised"]
         ELSE IF OutsideWindow(p.dt, from, to)
         THEN [song |-> song, yearly |-> yearly, outcome |-> "outside"]
         ELSE LET y == AugAdd(yearly, YearOf(p.dt), e.ms) IN
              IF ~y.ok
              THEN [song |-> song, yearly |-> y.d, outcome |-> "raised"]
              ELSE IF Truthy(e.track) /\ Truthy(e.artist)
              THEN [song |-> AugAdd(song, <<e.track.s, e.artist.s>>, e.ms).d,
                    yearly |-> y.d, outcome |-> "both"]
              ELSE [song |-> song, yearly |-> y.d, outcome |-> "year"]

\* (song[0], song[1], ms_played / 60000)
ToMinutes(ms) == Div(ms, MsPerMinute)

\* InsertDesc as an unstable sort would do it: x goes in front of its equals.
RECURSIVE InsertDescUnstable(_, _)
InsertDescUnstable(s, x) ==
    IF s = <<>> THEN <<x>>
    ELSE IF ~FrLess(x.minutes, Head(s).minutes) THEN <<x>> \o s
    ELSE <<Head(s)>> \o InsertDescUnstable(Tail(s), x)

\* list.sort(key=lambda x: x[2], reverse=True): stable, so equal keys keep
\* their order.  InsertDesc puts x behind every element not smaller than x.
RECURSIVE InsertDesc(_, _)
InsertDesc(s, x) ==
    IF s = <<>> THEN <<x>>
    ELSE IF FrLess(Head(s).minutes, x.minutes) THEN <<x>> \o s
    ELSE <<Head(s)>> \o InsertDesc(Tail(s), x)

RECURSIVE SortDesc(_)
SortDesc(s) ==
    IF s = <<>> THEN <<>>
    ELSE InsertDesc(SortDesc(SubSeq(s, 1, Len(s) - 1)), s[Len(s)])

\* ranked_songs: the items of song_playtime in minutes, sorted descending
RankSongs(song) ==
    SortDesc([i \in DOMAIN song |->
        [track |-> song[i].k[1], artist |-> song[i].k[2],
         minutes |-> ToMinutes(song[i].v)]])

\* yearly_playtime_hours
ToHours(yearly) ==
    [i \in DOMAIN yearly |-> [k |-> yearly[i].k, v |-> Div(yearly[i].v, MsPerHour)]]

\* ------------------------------------------------------------ display_stats

\* None as a display limit, and a number as one
NoLimit == [none |-> TRUE, n |-> 0]
Limit(k) == [none |-> FALSE, n |-> k]

Min(a, b) == IF a < b THEN a ELSE b

\* int(text) on the texts a user may type at a limit prompt; any other text
\* raises ValueError.
IntTable ==
    [ x \in {"-1", "0", "1", "9"} |->
        CASE x = "-1" -> -1 [] x = "0" -> 0 [] x = "1" -> 1 [] x = "9" -> 9 ]

ParseInt(s) ==
    IF s \in DOMAIN IntTable
    THEN [ok |-> TRUE, n |-> IntTable[s]]
    ELSE [ok |-> FALSE, n |-> 0]

\* What the user may type at a limit prompt.
LimitInputs == {"abc", "-1", "0", "1", "9"}

\* song_limit = None if song_limit == 0 else song_limit
ZeroToNone(n) == IF n = 0 THEN NoLimit ELSE Limit(n)

\* ClampLimit without the comparison against the total.
ClampLimitOff(l, total) == l

\* if song_limit and song_limit > total_songs: song_limit = total_songs
ClampLimit(l, total) ==
    IF ~l.none /\ l.n # 0 /\ l.n > total THEN Limit(total) ELSE l

\* rankings[:limit]
Slice(seq, l) ==
    IF l.none THEN seq ELSE SubSeq(seq, 1, Min(l.n, Len(seq)))

\* len(set(artist for _, artist, _ in rankings))
TotalArtists(r) == Cardinality({r[i].artist : i \in DOMAIN r})

\* artist_playtime[artist] += minutes, written as a plain assignment.
AddMinutesAssign(total, minutes) == minutes

\* artist_playtime[artist] += minutes
AddMinutes(total, minutes) == FrAdd(total, minutes)

\* The first loop of print_artist_rankings over rows 1..n of the ranking:
\* artist_playtime and artist_positions, both defaultdicts.
RECURSIVE Accumulate(_, _)
Accumulate(r, n) ==
    IF n = 0 THEN [playtime |-> <<>>, positions |-> <<>>]
    ELSE LET a == Accumulate(r, n - 1)
             artist == r[n].artist
             pt == Vivify(a.playtime, artist, FrZero)
             ps == Vivify(a.positions, artist, <<>>)
         IN  [playtime |->
                 DictSet(pt, artist, AddMinutes(DictGet(pt, artist), r[n].minutes)),
              positions |->
                 DictSet(ps, artist, Append(DictGet(ps, artist), n))]

\* sorted(artist_positions[artist])
RECURSIVE InsertAsc(_, _)
InsertAsc(s, x) ==
    IF s = <<>> THEN <<x>>
    ELSE IF x < Head(s) THEN <<x>> \o s
    ELSE <<Head(s)>> \o InsertAsc(Tail(s), x)

RECURSIVE Sorted(_)
Sorted(s) ==
    IF s = <<>> THEN <<>>
    ELSE InsertAsc(Sorted(SubSeq(s, 1, Len(s) - 1)), s[Len(s)])

\* sum(top_positions)
RECURSIVE SumSeq(_)
SumSeq(s) == IF s = <<>> THEN 0 ELSE Head(s) + SumSeq(Tail(s))

\* TopCount averaging every position of the artist.
TopCountAll(num_songs) == num_songs

\* top_count = min(5, num_songs)
TopCount(num_songs) == Min(TopN, num_songs)

\* The second loop of print_artist_rankings: one row of artist_stats per key
\* of artist_playtime, in its insertion order.
ArtistStats(r) ==
    LET a == Accumulate(r, Len(r)) IN
    [i \in DOMAIN a.playtime |->
        LET artist == a.playtime[i].k
            sorted_positions == Sorted(DictGet(a.positions, artist))
            num_songs == Len(sorted_positions)
            top_count == TopCount(num_songs)
            top_positions == SubSeq(sorted_positions, 1, top_count)
        IN  [artist |-> artist,
             total_minutes |-> a.playtime[i].v,
             avg_position |-> Div(SumSeq(top_positions), Len(top_positions)),
             num_songs |-> num_songs,
             top_count |-> top_count]]

\* sorted(artist_stats, key=lambda x: x[1], reverse=True)
RECURSIVE InsertByPlaytime(_, _)
InsertByPlaytime(s, x) ==
    IF s = <<>> THEN <<x>>
    ELSE IF FrLess(Head(s).total_minutes, x.total_minutes) THEN <<x>> \o s
    ELSE <<Head(s)>> \o InsertByPlaytime(Tail(s), x)

RECURSIVE PlaytimeSorted(_)
PlaytimeSorted(s) ==
    IF s = <<>> THEN <<>>
    ELSE InsertByPlaytime(PlaytimeSorted(SubSeq(s, 1, Len(s) - 1)), s[Len(s)])

\* sorted(artist_stats, key=lambda x: x[2])
RECURSIVE InsertByPosition(_, _)
InsertByPosition(s, x) ==
    IF s = <<>> THEN <<x>>
    ELSE IF FrLess(x.avg_position, Head(s).avg_position) THEN <<x>> \o s
    ELSE <<Head(s)>> \o InsertByPosition(Tail(s), x)

RECURSIVE PositionSorted(_)
PositionSorted(s) ==
    IF s = <<>> THEN <<>>
    ELSE InsertByPosition(PositionSorted(SubSeq(s, 1, Len(s) - 1)), s[Len(s)])

\* A song aggregate process_streaming_files can leave behind: distinct keys
\* (the i-th inserted track is named after i), each with an artist and a
\* total.
SongAggregate(ar, ms) ==
    [i \in DOMAIN ar |-> [k |-> <<ToString(i), ar[i]>>, v |-> ms[i]]]

\* ------------------------------------------------------------------- state

VARIABLES
    pc,                     \* position in the program
    all_data,               \* the loaded entries, in file order
    earliest_date,          \* get_date_range's minimum
    latest_date,            \* get_date_range's maximum
    from_in,                \* text typed at the last "From date" prompt
    to_in,                  \* text typed at the last "To date" prompt
    user_from_date,         \* lower end of the window ('' = NoDate)
    user_to_date,           \* upper end of the window ('' = NoDate)
    idx,                    \* index of the next entry of the aggregation loop
    song_playtime,          \* defaultdict: (track, artist) -> ms
    yearly_playtime,        \* defaultdict: year -> ms
    counted,                \* entries whose duration reached yearly_playtime
    keyed,                  \* entries whose duration reached song_playtime
    raised,                 \* entries whose processing raised (and was caught)
    ranked_songs,           \* the returned ranking
    yearly_playtime_hours,  \* the returned yearly totals
    error,                  \* the uncaught exception that ended the run, or ""
    rankings,               \* display_stats: the ranking displayed
    song_in,                \* text typed at the last song-limit prompt
    artist_in,              \* text typed at the last artist-limit prompt
    song_limit,             \* get_user_limits' first result
    artist_limit,           \* get_user_limits' second result
    shown_songs,            \* the rows print_rankings printed
    artist_stats,           \* print_artist_rankings' artist_stats
    playtime_sorted,        \* artist_stats by total time, descending
    position_sorted,        \* artist_stats by average position, ascending
    shown_by_time,          \* rows printed from playtime_sorted
    shown_by_position       \* rows printed from position_sorted

pipelineVars ==
    <<all_data, earliest_date, latest_date, from_in, to_in, user_from_date,
      user_to_date, idx, song_playtime, yearly_playtime, counted, keyed,
      raised, ranked_songs, yearly_playtime_hours, error>>

displayVars ==
    <<rankings, song_in, artist_in, song_limit, artist_limit, shown_songs,
      artist_stats, playtime_sorted, position_sorted, shown_by_time,
      shown_by_position>>

vars == <<pc, pipelineVars, displayVars>>

DisplayIdle ==
    /\ rankings = <<>>
    /\ song_in = "" /\ artist_in = ""
    /\ song_limit = NoLimit /\ artist_limit = NoLimit
    /\ shown_songs = <<>>
    /\ artist_stats = <<>>
    /\ playtime_sorted = <<>> /\ position_sorted = <<>>
    /\ shown_by_time = <<>> /\ shown_by_position = <<>>

\* ---------------------------------------------------------------- pipeline

\* The files are loaded: all_data holds any dataset within the bound.
Init ==
    /\ pc = "scan"
    /\ \E n \in 0..MaxEntries : all_data \in [1..n -> Entries]
    /\ earliest_date = NoDate /\ latest_date = NoDate
    /\ from_in = "" /\ to_in = ""
    /\ user_from_date = NoDate /\ user_to_date = NoDate
    /\ idx = 1
    /\ song_playtime = <<>> /\ yearly_playtime = <<>>
    /\ counted = {} /\ keyed = {} /\ raised = {}
    /\ ranked_songs = <<>> /\ yearly_playtime_hours = <<>>
    /\ error = ""
    /\ DisplayIdle

\* earliest_date, latest_date = get_date_range(all_data); an exception out of
\* get_date_range is caught nowhere and ends the run.
ScanDates ==
    /\ pc = "scan"
    /\ LET r == GetDateRange(all_data) IN
        /\ pc' = IF r.ok THEN "prompt" ELSE "crashed"
        /\ error' = r.err
        /\ earliest_date' = r.lo
        /\ latest_date' = r.hi
    /\ UNCHANGED <<all_data, from_in, to_in, user_from_date, user_to_date, idx,
                   song_playtime, yearly_playtime, counted, keyed, raised,
                   ranked_songs, yearly_playtime_hours, displayVars>>

\* One round of get_user_date_range's loop: both texts are read, then
\* parsed; ValueError prints a message and starts the next round.
PromptDates ==
    /\ pc = "prompt"
    /\ \E f \in DateInputs, t \in DateInputs :
        /\ from_in' = f
        /\ to_in' = t
        /\ IF (f # "" /\ ~StrptimeDate(f).ok) \/ (t # "" /\ ~StrptimeDate(t).ok)
           THEN /\ pc' = "prompt"
                /\ UNCHANGED <<user_from_date, user_to_date>>
           ELSE /\ pc' = "resolve"
                /\ user_from_date' = IF f = "" THEN NoDate ELSE StrptimeDate(f).dt
                /\ user_to_date' =
                      IF t = "" THEN NoDate ELSE EndOfDay(StrptimeDate(t).dt)
    /\ UNCHANGED <<all_data, earliest_date, latest_date, idx, song_playtime,
                   yearly_playtime, counted, keyed, raised, ranked_songs,
                   yearly_playtime_hours, error, displayVars>>

\* Empty or out-of-range dates are replaced by the dataset limits.
ResolveWindow ==
    /\ pc = "resolve"
    /\ user_from_date' = ResolveFrom(user_from_date, earliest_date)
    /\ user_to_date' = ResolveTo(user_to_date, latest_date)
    /\ pc' = "aggregate"
    /\ UNCHANGED <<all_data, earliest_date, latest_date, from_in, to_in, idx,
                   song_playtime, yearly_playtime, counted, keyed, raised,
                   ranked_songs, yearly_playtime_hours, error, displayVars>>

\* One iteration of "for entry in all_data".
ProcessEntry ==
    /\ pc = "aggregate"
    /\ idx <= Len(all_data)
    /\ LET r == ProcessOne(all_data[idx], user_from_date, user_to_date,
                           song_playtime, yearly_playtime) IN
        /\ song_playtime' = r.song
        /\ yearly_playtime' = r.yearly
        /\ counted' = IF r.outcome \in {"year", "both"}
                      THEN counted \cup {idx} ELSE counted
        /\ keyed' = IF r.outcome = "both" THEN keyed \cup {idx} ELSE keyed
        /\ raised' = IF r.outcome = "raised" THEN raised \cup {idx} ELSE raised
    /\ idx' = idx + 1
    /\ UNCHANGED <<pc, all_data, earliest_date, latest_date, from_in, to_in,
                   user_from_date, user_to_date, ranked_songs,
                   yearly_playtime_hours, error, displayVars>>

\* After the loop: the ranking and the yearly hours are built and returned.
Rank ==
    /\ pc = "aggregate"
    /\ idx > Len(all_data)
    /\ ranked_songs' = RankSongs(song_playtime)
    /\ yearly_playtime_hours' = ToHours(yearly_playtime)
    /\ pc' = "returned"
    /\ UNCHANGED <<all_data, earliest_date, latest_date, from_in, to_in,
                   user_from_date, user_to_date, idx, song_playtime,
                   yearly_playtime, counted, keyed, raised, error, displayVars>>

Next ==
    \/ ScanDates
    \/ PromptDates
    \/ ResolveWindow
    \/ ProcessEntry
    \/ Rank

Spec == Init /\ [][Next]_vars

\* ----------------------------------------------------------------- display

\* process_streaming_files has returned a ranking built from some song
\* aggregate; display_stats(rankings) starts.
PipelineReturned(max) ==
    /\ all_data = <<>>
    /\ earliest_date = NoDate /\ latest_date = NoDate
    /\ from_in = "" /\ to_in = ""
    /\ user_from_date = NoDate /\ user_to_date = NoDate
    /\ idx = 1
    /\ \E n \in 0..max :
        \E ar \in [1..n -> {"X", "Y"}], ms \in [1..n -> {60000, 90000}] :
            song_playtime = SongAggregate(ar, ms)
    /\ yearly_playtime = <<>>
    /\ counted = {} /\ keyed = {} /\ raised = {}
    /\ ranked_songs = RankSongs(song_playtime)
    /\ yearly_playtime_hours = <<>>
    /\ error = ""
    /\ rankings = ranked_songs

InitDisplay ==
    /\ pc = "limits"
    /\ PipelineReturned(MaxShown)
    /\ song_in = "" /\ artist_in = ""
    /\ song_limit = NoLimit /\ artist_limit = NoLimit
    /\ shown_songs = <<>>
    /\ artist_stats = <<>>
    /\ playtime_sorted = <<>> /\ position_sorted = <<>>
    /\ shown_by_time = <<>> /\ shown_by_position = <<>>

\* One round of get_user_limits' loop.  int() of the first text may raise
\* before the second prompt is shown (artist_in is then ""); ValueError and a
\* negative number both start the next round; otherwise the limits are
\* returned with 0 as None and anything above the total as the total.
PromptLimits ==
    /\ pc = "limits"
    /\ \E s \in LimitInputs, a \in LimitInputs :
        LET ps == ParseInt(s)
            pa == ParseInt(a)
        IN  /\ song_in' = s
            /\ artist_in' = IF ps.ok THEN a ELSE ""
            /\ IF ~ps.ok \/ ~pa.ok \/ ps.n < 0 \/ pa.n < 0
               THEN /\ pc' = "limits"
                    /\ UNCHANGED <<song_limit, artist_limit>>
               ELSE /\ pc' = "print_rankings"
                    /\ song_limit' = ClampLimit(ZeroToNone(ps.n), Len(rankings))
                    /\ artist_limit' =
                          ClampLimit(ZeroToNone(pa.n), TotalArtists(rankings))
    /\ UNCHANGED <<pipelineVars, rankings, shown_songs, artist_stats,
                   playtime_sorted, position_sorted, shown_by_time,
                   shown_by_position>>

\* print_rankings(rankings, song_limit)
PrintRankings ==
    /\ pc = "print_rankings"
    /\ shown_songs' = Slice(rankings, song_limit)
    /\ pc' = "print_artists"
    /\ UNCHANGED <<pipelineVars, rankings, song_in, artist_in, song_limit,
                   artist_limit, artist_stats, playtime_sorted, position_sorted,
                   shown_by_time, shown_by_position>>

\* print_artist_rankings(rankings, artist_limit)
PrintArtistRankings ==
    /\ pc = "print_artists"
    /\ artist_stats' = ArtistStats(rankings)
    /\ playtime_sorted' = PlaytimeSorted(artist_stats')
    /\ position_sorted' = PositionSorted(artist_stats')
    /\ shown_by_time' = Slice(playtime_sorted', artist_limit)
    /\ shown_by_position' = Slice(position_sorted', artist_limit)
    /\ pc' = "displayed"
    /\ UNCHANGED <<pipelineVars, rankings, song_in, artist_in, song_limit,
                   artist_limit, shown_songs>>

NextDisplay ==
    \/ PromptLimits
    \/ PrintRankings
    \/ PrintArtistRankings

SpecDisplay == InitDisplay /\ [][NextDisplay]_vars

\* display_stats on a longer ranking, taken up where print_artist_rankings is
\* called: the user asked for all songs ("0") and typed any accepted artist
\* limit, and print_rankings has printed.
InitArtists ==
    /\ pc = "print_artists"
    /\ PipelineReturned(MaxSongs)
    /\ song_in = "0"
    /\ artist_in \in {"0", "1", "9"}
    /\ song_limit = ClampLimit(ZeroToNone(ParseInt(song_in).n), Len(rankings))
    /\ artist_limit =
          ClampLimit(ZeroToNone(ParseInt(artist_in).n), TotalArtists(rankings))
    /\ shown_songs = Slice(rankings, song_limit)
    /\ artist_stats = <<>>
    /\ playtime_sorted = <<>> /\ position_sorted = <<>>
    /\ shown_by_time = <<>> /\ shown_by_position = <<>>

NextArtists == PrintArtistRankings

SpecArtists == InitArtists /\ [][NextArtists]_vars

\* ------------------------------------------------- claims on the pipeline

Aggregating == pc \in {"aggregate", "returned"}

\* entries the aggregation loop has already gone through
Processed == IF Aggregating THEN 1..(idx - 1) ELSE {}

\* the parsed timestamp of entry i (for entries with a parseable one)
TsOf(i) == StrptimeTs(all_data[i].ts).dt

ParseableTs(i) == Has(all_data[i].ts) /\ StrptimeTs(all_data[i].ts).ok

InWindow(d) == ~DtLess(d, user_from_date) /\ ~DtLess(user_to_date, d)

\* C1 (as claimed): every processed event with a parseable timestamp and a
\* numeric duration that lies inside the resolved window has added its
\* duration to the yearly total, whatever its track and artist fields are
\* (absent, null or empty included).
C1_YearlyRegardlessOfNames ==
    \A i \in Processed :
        (ParseableTs(i) /\ all_data[i].ms.t = "int" /\ InWindow(TsOf(i)))
            => i \in counted

\* C2 (as claimed): the window used for filtering lies inside the dataset's
\* range: earliest <= from <= latest and earliest <= to <= latest.
C2_WindowInsideDataset ==
    Aggregating =>
        /\ ~DtLess(user_from_date, earliest_date)
        /\ ~DtLess(latest_date, user_from_date)
        /\ ~DtLess(user_to_date, earliest_date)
        /\ ~DtLess(latest_date, user_to_date)

\* C3 (as claimed): a record with a malformed timestamp never aborts the run:
\* the run ends with an uncaught exception only when no record carries a
\* parseable timestamp at all.
C3_MalformedNeverAborts ==
    pc = "crashed" => ~ \E i \in DOMAIN all_data : ParseableTs(i)

\* C4: a processed event that passes the field guard with a parseable
\* timestamp and a numeric duration is included when it is stamped exactly
\* 23:59:59 of the supplied "to" day (and not before the window's start),
\* excluded when it is stamped later than that, and included when it is
\* stamped exactly at the supplied "from" instant (and not after the
\* window's end); an included event with both names non-empty also reaches
\* the song aggregate.
C4_WindowInclusive ==
    \A i \in Processed :
        (HasAllFields(all_data[i]) /\ ParseableTs(i) /\ all_data[i].ms.t = "int")
        => /\ to_in # "" =>
                /\ (TsOf(i) = EndOfDay(DateTable[to_in])
                        /\ ~DtLess(TsOf(i), user_from_date))
                    => i \in counted
                /\ DtLess(EndOfDay(DateTable[to_in]), TsOf(i))
                    => i \notin counted
           /\ (from_in # "" /\ TsOf(i) = DateTable[from_in]
                    /\ ~DtLess(user_to_date, TsOf(i)))
                => i \in counted
           /\ (i \in counted /\ Truthy(all_data[i].track)
                    /\ Truthy(all_data[i].artist))
                => i \in keyed

\* C4 witness: with "from" = "to" = 2022-12-31 supplied, an event at
\* 2022-12-31 23:59:59 was counted and one at 2023-01-01 00:00:00 was left
\* out.
C4_Witness ==
    /\ pc = "returned"
    /\ to_in = "2022-12-31"
    /\ from_in = "2022-12-31"
    /\ Len(all_data) >= 2
    /\ \E i \in counted : TsOf(i) = <<2022, 12, 31, 23, 59, 59>>
    /\ \E i \in DOMAIN all_data :
        /\ HasAllFields(all_data[i]) /\ ParseableTs(i) /\ all_data[i].ms.t = "int"
        /\ TsOf(i) = <<2023, 1, 1, 0, 0, 0>>
        /\ i \notin counted

\* position of a (track, artist) key in song_playtime's insertion order
KeyPos(track, artist) ==
    CHOOSE j \in DOMAIN song_playtime : song_playtime[j].k = <<track, artist>>

\* C5: the returned ranking holds exactly the keys of song_playtime, each
\* once with its total divided by 60000; minutes never increase along the
\* list; tracks with equal totals are in the order their keys were inserted.
C5_StableDescending ==
    pc = "returned" =>
        /\ Len(ranked_songs) = Len(song_playtime)
        /\ \A i \in DOMAIN ranked_songs :
            \E j \in DOMAIN song_playtime :
                /\ song_playtime[j].k = <<ranked_songs[i].track, ranked_songs[i].artist>>
                /\ ranked_songs[i].minutes.num * MsPerMinute
                     = song_playtime[j].v * ranked_songs[i].minutes.den
        /\ \A i, j \in DOMAIN ranked_songs :
            i < j =>
                /\ <<ranked_songs[i].track, ranked_songs[i].artist>>
                     # <<ranked_songs[j].track, ranked_songs[j].artist>>
                /\ ~FrLess(ranked_songs[i].minutes, ranked_songs[j].minutes)
                /\ ranked_songs[i].minutes = ranked_songs[j].minutes
                    => KeyPos(ranked_songs[i].track, ranked_songs[i].artist)
                         < KeyPos(ranked_songs[j].track, ranked_songs[j].artist)

\* C5 witness: two tracks with equal non-zero totals, "B" inserted first and
\* therefore ranked first.
C5_Witness ==
    /\ pc = "returned"
    /\ Len(ranked_songs) = 2
    /\ ranked_songs[1].track = "B" /\ ranked_songs[2].track = "A"
    /\ ranked_songs[1].minutes = ranked_songs[2].minutes
    /\ ranked_songs[1].minutes.num > 0

NoNegativeDuration ==
    \A i \in DOMAIN all_data :
        all_data[i].ms.t = "int" => all_data[i].ms.n >= 0

\* C6 (as claimed): every pair in the song ranking has minutes > 0.
C6_MinutesPositive ==
    pc = "returned" => \A i \in DOMAIN ranked_songs : ranked_songs[i].minutes.num > 0

\* C6 (amended): when no loaded event has a negative duration, every pair in
\* the song ranking has minutes >= 0; 0.0 occurs, for a key whose in-window
\* events total 0 ms.
C6_MinutesNonNegative ==
    (pc = "returned" /\ NoNegativeDuration)
        => \A i \in DOMAIN ranked_songs : ranked_songs[i].minutes.num >= 0

\* C6 witness: a ranking with a pair at 0.0 minutes behind a pair with more,
\* from a dataset without negative durations.
C6_Witness ==
    /\ pc = "returned"
    /\ NoNegativeDuration
    /\ Len(ranked_songs) = 2
    /\ ranked_songs[1].minutes.num > 0
    /\ ranked_songs[2].minutes.num = 0

\* C10 (as claimed): every key of the yearly and of the song aggregate has an
\* entry that contributed to it successfully.
C10_KeysHaveContributors ==
    /\ \A y \in DictKeys(yearly_playtime) :
        \E i \in counted : YearOf(TsOf(i)) = y
    /\ \A key \in DictKeys(song_playtime) :
        \E i \in keyed : key = <<all_data[i].track.s, all_data[i].artist.s>>

\* --------------------------------------------------- claims on the display

\* 1-based positions of an artist's songs in the ranking
PositionsOf(artist) == {p \in DOMAIN rankings : rankings[p].artist = artist}

\* the k smallest elements of a set of positions
Smallest(P, k) == {p \in P : Cardinality({q \in P : q < p}) < k}

RECURSIVE SumSet(_)
SumSet(S) ==
    IF S = {} THEN 0 ELSE LET x == CHOOSE x \in S : TRUE IN x + SumSet(S \ {x})

\* C7: after print_artist_rankings every artist of the ranking has exactly one
\* row of artist_stats; its song count is the number of its songs, its
\* top_considered_count is min(5, song count), and its average position is
\* the mean of that many smallest positions of its songs; with exactly one
\* song the average is that song's position.
C7_AverageTopPosition ==
    pc = "displayed" =>
        /\ \A p \in DOMAIN rankings :
            Cardinality({i \in DOMAIN artist_stats :
                            artist_stats[i].artist = rankings[p].artist}) = 1
        /\ \A i \in DOMAIN artist_stats :
            LET st == artist_stats[i]
                P == PositionsOf(st.artist)
                k == IF Cardinality(P) < 5 THEN Cardinality(P) ELSE 5
            IN  /\ st.num_songs = Cardinality(P)
                /\ st.top_count = k
                /\ k > 0
                /\ st.avg_position.num * k = SumSet(Smallest(P, k)) * st.avg_position.den
                /\ Cardinality(P) = 1 => SumSet(P) = st.avg_position.num
                                          /\ st.avg_position.den = 1

\* C7 witness: an artist with six songs, of which the best five (positions
\* 1 to 5) are averaged to 3.
C7_Witness ==
    /\ pc = "displayed"
    /\ \E i \in DOMAIN artist_stats :
        /\ artist_stats[i].num_songs = 6
        /\ artist_stats[i].top_count = 5
        /\ artist_stats[i].avg_position = [num |-> 3, den |-> 1]

RECURSIVE SumMinutes(_)
SumMinutes(s) ==
    IF s = <<>> THEN FrZero ELSE FrAdd(Head(s).minutes, SumMinutes(Tail(s)))

RECURSIVE SumTotals(_)
SumTotals(s) ==
    IF s = <<>> THEN FrZero ELSE FrAdd(Head(s).total_minutes, SumTotals(Tail(s)))

Returned == pc \in {"print_rankings", "print_artists", "displayed"}

\* C9: get_user_limits has returned only if the texts of its last round are
\* both non-negative integers; each returned limit is None for input 0 and
\* otherwise the input or, when that exceeds it, the total; and a requested
\* limit above the total makes print_rankings and print_artist_rankings show
\* their full lists.
C9_LimitsValidAndClamped ==
    Returned =>
        /\ song_in \in DOMAIN IntTable /\ IntTable[song_in] >= 0
        /\ artist_in \in DOMAIN IntTable /\ IntTable[artist_in] >= 0
        /\ song_limit.none <=> IntTable[song_in] = 0
        /\ artist_limit.none <=> IntTable[artist_in] = 0
        /\ ~song_limit.none =>
            /\ song_limit.n <= Len(rankings)
            /\ song_limit.n <= IntTable[song_in]
            /\ song_limit.n = Len(rankings) \/ song_limit.n = IntTable[song_in]
        /\ ~artist_limit.none =>
            /\ artist_limit.n <= TotalArtists(rankings)
            /\ artist_limit.n <= IntTable[artist_in]
            /\ artist_limit.n = TotalArtists(rankings)
                 \/ artist_limit.n = IntTable[artist_in]
        /\ (pc \in {"print_artists", "displayed"}
                /\ IntTable[song_in] > Len(rankings))
            => shown_songs = rankings
        /\ (pc = "displayed" /\ IntTable[artist_in] > TotalArtists(rankings))
            => /\ shown_by_time = playtime_sorted
               /\ shown_by_position = position_sorted
               /\ Len(shown_by_time) = TotalArtists(rankings)

\* C9 witness: the user asked for 9 songs and 9 artists of a ranking of
\* three songs by two artists, and everything was shown.
C9_Witness ==
    /\ pc = "displayed"
    /\ song_in = "9" /\ artist_in = "9"
    /\ Len(rankings) = 3
    /\ song_limit = Limit(3)
    /\ artist_limit = Limit(2)
    /\ shown_songs = rankings
    /\ Len(shown_by_time) = 2

====
